---- MODULE Spec2Model ----
(***************************************************************************)
(* PolyTUI: the Polymarket terminal client.                                *)
(*                                                                         *)
(* Modelled here, from src/polytui.py and src/polytui_simple.py:           *)
(*   - PolymarketClient, the gateway (one action per call; the upstream    *)
(*     answer of every request the call makes is an input of the action),  *)
(*   - PolyTUIScreen, the interactive navigation (one action per key       *)
(*     binding; a handler runs to completion before the next key),         *)
(*   - agent mode (one process invocation per behaviour),                  *)
(*   - the display functions of a market and of an order book (one view    *)
(*     applied to one input per behaviour),                                *)
(*   - run_interactive of polytui_simple.py (one action per command).      *)
(*                                                                         *)
(* Python values are modelled as follows.  None is the empty sequence and  *)
(* a present object x is <<x>> where an attribute may hold either.  List   *)
(* indices stay 0-based as in the source: markets[i] is written            *)
(* At(markets, i).  Prices and sizes are integers (price in cents).        *)
(***************************************************************************)
EXTENDS Integers, Sequences, FiniteSets, TLC

VARIABLES
    \* -- PolymarketClient (src/polytui.py:76-86) --
    api_key,          \* os.getenv("POLY_API_KEY")
    api_secret,       \* os.getenv("POLY_API_SECRET")
    private_key,      \* os.getenv("ETHEREUM_PRIVATE_KEY")
    is_authenticated, \* bool(api_key and private_key)
    \* -- PolyTUIScreen (src/polytui.py:243-250) --
    markets,          \* self.markets
    selected_index,   \* self.selected_index (0-based)
    selected_market,  \* self.selected_market: None or Some(market)
    orderbook,        \* self.orderbook
    status,           \* text of the #status widget
    mounted,          \* on_mount has run: key bindings are served
    running,          \* FALSE once the app has quit or a handler let an exception escape
    \* -- observation --
    fetched,          \* last get_orderbook made by the screen: None or Some
    call,             \* last client call made directly: None or Some(name and inputs)
    result,           \* value that call returned
    netlog            \* requests issued by the last operation, in order

clientVars == <<api_key, api_secret, private_key, is_authenticated>>
screenVars == <<markets, selected_index, selected_market, orderbook, status, mounted, running, fetched>>
vars       == <<clientVars, screenVars, call, result, netlog>>

---------------------------------------------------------------------------
(* Bounds of the model *)

\* longest market list an upstream answer carries
MaxMarkets == 3

---------------------------------------------------------------------------
(* Python values *)

None == <<>>
Some(x) == <<x>>
At(seq, i) == seq[i + 1]

\* value of an environment variable that is not set (os.getenv gives None)
Unset == "<unset>"
EnvValues == {Unset, "", "secret"}

\* truth value of an optional string: None and "" are false
Truthy(v) == v \notin {Unset, ""}

---------------------------------------------------------------------------
(* Upstream data *)

Tokens == {"t1", "t2"}

Token(id, outcome) == [tokenId |-> id, outcome |-> outcome]

\* A market object as the screen reads it: volume is "absent", a number
\* ("num"), a numeric string ("numstr", the shape the listing API delivers)
\* or a string that is no number ("bad"); a token's tokenId is "" when the
\* key is missing.
Market(id, volume, tokens) == [id |-> id, volume |-> volume, tokens |-> tokens]

MA == Market(1, "num", <<Token("t1", "Yes"), Token("t2", "No")>>)
MB == Market(2, "numstr", <<Token("t2", "Yes")>>)
MC == Market(3, "absent", <<>>)
MD == Market(4, "bad", <<Token("", "Yes")>>)

MarketObjects == {MA, MB, MC, MD}

Range(seq) == {seq[i] : i \in 1..Len(seq)}

RECURSIVE ListsUpTo(_, _)
\* the lists of at most n markets of S, no market twice (upstream ids are unique)
ListsUpTo(S, n) ==
    IF n = 0 THEN {<<>>}
    ELSE LET shorter == ListsUpTo(S, n - 1)
             longest == {l \in shorter : Len(l) = n - 1}
         IN shorter \cup UNION {{Append(l, m) : m \in S \ Range(l)} : l \in longest}

MarketLists == ListsUpTo(MarketObjects, MaxMarkets)

Level(price, size) == [price |-> price, size |-> size]

\* {"bids": [], "asks": []}
EmptyBook == [asset_id |-> "", bids |-> <<>>, asks |-> <<>>]

IsEmptyBook(b) == b.bids = <<>> /\ b.asks = <<>>

\* the books the order-book service may answer for a token
ServerBooks(t) ==
    { [asset_id |-> t, bids |-> <<Level(60, 10)>>, asks |-> <<Level(65, 5)>>],
      [asset_id |-> t, bids |-> <<Level(40, 1)>>, asks |-> <<>>] }

---------------------------------------------------------------------------
(* Transport: what one request of requests.Session can end in *)

\* status codes that report an error
ErrorCodes == {404, 500}

\* the body of an answer whose body the client never reads
NoBody == [shape |-> "none", value |-> <<>>]

\* an HTTP answer with a status code and a body
Http(code, body) == [kind |-> "http", code |-> code, body |-> body]

\* session.get / session.post raising: no answer within timeout=10, or no connection
Failure(kind) == [kind |-> kind, code |-> 0, body |-> NoBody]

TransportFailures == {Failure("timeout"), Failure("connection_error")}

\* a body that is JSON text carries its decoded value; "undecodable" is a
\* body response.json() raises on
Json(shape, value) == [shape |-> shape, value |-> value]
Undecodable == [shape |-> "undecodable", value |-> <<>>]

\* what an endpoint may answer: 200 with one of its bodies, an error status
\* (the client reads no body then), or no answer at all
Responses(bodies) ==
    {Http(200, b) : b \in bodies} \cup {Http(c, NoBody) : c \in ErrorCodes}
    \cup TransportFailures

\* the request did not raise
Delivered(resp) == resp.kind = "http"

\* response.raise_for_status() raises on a 4xx or 5xx status
RaisesForStatus(resp) == resp.code >= 400

\* response.json() raises
JsonRaises(resp) == resp.body.shape \in {"undecodable", "none"}

Request(method, url, arg) == [method |-> method, url |-> url, arg |-> arg]

\* str(x) of a number
Str(x) == [str |-> x]

---------------------------------------------------------------------------
(* PolymarketClient *)

\* __init__: bool(self.api_key and self.private_key)
IsAuthenticated(key, secret, pkey) == Truthy(key) /\ Truthy(pkey)

\* answers of the markets listing: a bare list, an object with a "markets"
\* field, an object without one, a JSON scalar, or no JSON at all
MarketsBodies ==
    {Json("list", l) : l \in MarketLists} \cup
    {Json("object", l) : l \in MarketLists} \cup
    {Json("object_other", <<>>), Json("scalar", <<>>), Undecodable}

MarketsResponses == Responses(MarketsBodies)

\* the normalisation with the object shape left out: only a bare list is read
NormalizeMarketsListOnly(body) ==
    CASE body.shape = "list" -> [raised |-> FALSE, markets |-> body.value]
      [] body.shape \in {"object", "object_other"} -> [raised |-> FALSE, markets |-> <<>>]
      [] OTHER -> [raised |-> TRUE, markets |-> <<>>]

\* data if isinstance(data, list) else data.get("markets", []); a scalar has no .get
NormalizeMarkets(body) ==
    CASE body.shape = "list" -> [raised |-> FALSE, markets |-> body.value]
      [] body.shape = "object" -> [raised |-> FALSE, markets |-> body.value]
      [] body.shape = "object_other" -> [raised |-> FALSE, markets |-> <<>>]
      [] OTHER -> [raised |-> TRUE, markets |-> <<>>]

\* get_markets: the returned dict
GetMarkets(resp) ==
    IF ~Delivered(resp) \/ RaisesForStatus(resp) \/ JsonRaises(resp)
       \/ NormalizeMarkets(resp.body).raised
    THEN [markets |-> <<>>, cursor |-> None]
    ELSE [markets |-> NormalizeMarkets(resp.body).markets, cursor |-> None]

\* a decoded body that is no JSON object (a list, a string, null): get_orderbook
\* returns it as it is, and .get on it raises AttributeError.  It carries the
\* fields of a book so that every predicate on books can read it.
NotAnObject == [asset_id |-> "", bids |-> <<>>, asks |-> <<>>, not_object |-> TRUE]

BookBodies(t) ==
    {Json("object", b) : b \in ServerBooks(t)} \cup {Json("list", NotAnObject), Undecodable}

BookResponses(t) == Responses(BookBodies(t))

\* get_orderbook: the returned dict
GetOrderbook(resp) ==
    IF ~Delivered(resp) \/ RaisesForStatus(resp) \/ JsonRaises(resp)
    THEN EmptyBook
    ELSE resp.body.value

\* values a client call returns: a decoded body, {"error": ...}, or {}
Body(value) == [kind |-> "body", value |-> value]
Error(text) == [kind |-> "error", value |-> text]
EmptyDict == [kind |-> "empty", value |-> <<>>]

\* {"error": "Authentication required"}
AuthRequired == Error("Authentication required")

\* f"Status code: {response.status_code}"
StatusCodeError(code) == Error(<<"Status code", code>>)

\* what a call did: the value it returned and the requests it issued, in order
Outcome(value, requests) == [value |-> value, requests |-> requests]

PriceDocs == {[price |-> 55], [mid |-> 50]}

PriceResponses == Responses({Json("object", d) : d \in PriceDocs} \cup {Undecodable})

PriceRequest(token_id) == Request("GET", "CLOB/price", token_id)
MidpointRequest(token_id) == Request("GET", "CLOB/midpoint", token_id)

\* get_price with the midpoint request left out: the primary's failure is final
GetPriceNoFallback(token_id, primary, secondary) ==
    IF ~Delivered(primary) THEN Outcome(EmptyDict, <<PriceRequest(token_id)>>)
    ELSE IF primary.code = 200
         THEN Outcome(IF JsonRaises(primary) THEN EmptyDict ELSE Body(primary.body.value),
                      <<PriceRequest(token_id)>>)
         ELSE Outcome(StatusCodeError(primary.code), <<PriceRequest(token_id)>>)

\* get_price(token_id); primary and secondary are the answers the /price and
\* the /midpoint endpoint give if asked
GetPrice(token_id, primary, secondary) ==
    LET first == <<PriceRequest(token_id)>>
        both  == <<PriceRequest(token_id), MidpointRequest(token_id)>>
    IN  IF ~Delivered(primary) THEN Outcome(EmptyDict, first)
        ELSE IF primary.code = 200
        THEN IF JsonRaises(primary) THEN Outcome(EmptyDict, first)
             ELSE Outcome(Body(primary.body.value), first)
        ELSE IF ~Delivered(secondary) THEN Outcome(EmptyDict, both)
        ELSE IF secondary.code = 200
        THEN IF JsonRaises(secondary) THEN Outcome(EmptyDict, both)
             ELSE Outcome(Body(secondary.body.value), both)
        ELSE Outcome(StatusCodeError(secondary.code), both)

Sides == {"BUY", "SELL"}

\* the order document posted: amount and price go through str()
OrderData(token_id, side, amount, price) ==
    [token_id |-> token_id, side |-> side, amount |-> Str(amount), price |-> Str(price)]

OrderAcks == {[orderID |-> "o1"]}

OrderResponses == Responses({Json("object", a) : a \in OrderAcks} \cup {Undecodable})

\* str(e) of the exception place_order catches
ExceptionText(resp) ==
    IF ~Delivered(resp) THEN resp.kind
    ELSE IF RaisesForStatus(resp) THEN <<"HTTPError", resp.code>>
    ELSE "JSONDecodeError"

\* place_order without its is_authenticated guard
PlaceOrderUnguarded(authenticated, token_id, side, amount, price, resp) ==
    LET sent == <<Request("POST", "CLOB/order", OrderData(token_id, side, amount, price))>>
    IN  IF ~Delivered(resp) \/ RaisesForStatus(resp) \/ JsonRaises(resp)
        THEN Outcome(Error(ExceptionText(resp)), sent)
        ELSE Outcome(Body(resp.body.value), sent)

\* place_order(token_id, side, amount, price); resp is the answer of the order
\* endpoint if asked
PlaceOrder(authenticated, token_id, side, amount, price, resp) ==
    LET sent == <<Request("POST", "CLOB/order", OrderData(token_id, side, amount, price))>>
    IN  IF ~authenticated THEN Outcome(AuthRequired, <<>>)
        ELSE IF ~Delivered(resp) \/ RaisesForStatus(resp) \/ JsonRaises(resp)
        THEN Outcome(Error(ExceptionText(resp)), sent)
        ELSE Outcome(Body(resp.body.value), sent)

---------------------------------------------------------------------------
(* PolyTUIScreen: projections, as far as they decide the handlers' control flow *)

\* rows update_market_list renders: self.markets[:20]
ListWindow == 20

Min(a, b) == IF a < b THEN a ELSE b

Status(text, n) == [text |-> text, n |-> n]

\* update_market_list raises: float(market.get('volume', 0)) of a string that
\* is no number, in one of the rendered rows
UpdateMarketListRaises(mkts) ==
    \E i \in 1..Min(Len(mkts), ListWindow) : mkts[i].volume = "bad"

\* update_market_detail raises: f"${market.get('volume', 0):,.2f}" of a string
UpdateMarketDetailRaises(market) == market.volume \in {"numstr", "bad"}

\* (self.selected_index + 1) % len(self.markets)
CursorDownIndex(i, n) == (i + 1) % n

\* (self.selected_index - 1) % len(self.markets)
CursorUpIndex(i, n) == (i - 1) % n

MarketsRequest(limit) == Request("GET", "GAMMA/markets", [limit |-> limit, closed |-> "false"])
BookRequest(token_id) == Request("GET", "CLOB/book", token_id)

---------------------------------------------------------------------------
(* PolyTUIScreen: construction and handlers *)

\* PolyTUIScreen.__init__ and compose; the screen reads no credential, the
\* environment here holds none
Init ==
    /\ api_key = Unset
    /\ api_secret = Unset
    /\ private_key = Unset
    /\ is_authenticated = IsAuthenticated(api_key, api_secret, private_key)
    /\ markets = <<>>
    /\ selected_index = 0
    /\ selected_market = None
    /\ orderbook = EmptyBook
    /\ status = Status("Ready", 0)
    /\ mounted = FALSE
    /\ running = TRUE
    /\ fetched = None
    /\ call = None
    /\ result = None
    /\ netlog = <<>>

\* key bindings are served
Serving == mounted /\ running

\* load_markets, with the answer of the markets listing
LoadMarkets(resp) ==
    LET response == GetMarkets(resp)
        loaded   == response.markets
    IN  /\ markets' = loaded
        /\ status' = IF loaded # <<>>
                     THEN IF UpdateMarketListRaises(loaded)
                          THEN Status("Error", 0)
                          ELSE Status("Loaded markets", Len(loaded))
                     ELSE Status("No markets found", 0)
        /\ netlog' = <<MarketsRequest(50)>>
        /\ UNCHANGED <<selected_index, selected_market, orderbook, running, fetched>>
        /\ UNCHANGED <<clientVars, call, result>>

\* on_mount
OnMount ==
    /\ ~mounted /\ running
    /\ mounted' = TRUE
    /\ \E resp \in MarketsResponses : LoadMarkets(resp)

\* action_refresh (key r)
ActionRefresh ==
    /\ Serving
    /\ UNCHANGED mounted
    /\ \E resp \in MarketsResponses : LoadMarkets(resp)

\* action_cursor_down (key j)
ActionCursorDown ==
    /\ Serving
    /\ IF markets # <<>>
       THEN /\ selected_index' = CursorDownIndex(selected_index, Len(markets))
            /\ running' = ~UpdateMarketListRaises(markets)
       ELSE UNCHANGED <<selected_index, running>>
    /\ netlog' = <<>>
    /\ UNCHANGED <<markets, selected_market, orderbook, status, mounted, fetched>>
    /\ UNCHANGED <<clientVars, call, result>>

\* action_cursor_up (key k)
ActionCursorUp ==
    /\ Serving
    /\ IF markets # <<>>
       THEN /\ selected_index' = CursorUpIndex(selected_index, Len(markets))
            /\ running' = ~UpdateMarketListRaises(markets)
       ELSE UNCHANGED <<selected_index, running>>
    /\ netlog' = <<>>
    /\ UNCHANGED <<markets, selected_market, orderbook, status, mounted, fetched>>
    /\ UNCHANGED <<clientVars, call, result>>

\* update_orderbook_display raises: self.orderbook.get of a value that is no
\* dict, outside the try of the function
UpdateOrderbookDisplayRaises(book) == "not_object" \in DOMAIN book

\* token the order book is loaded for: tokens[0].get("tokenId") of a market
\* with tokens, "" when there is none
FirstTokenId(market) ==
    IF market.tokens # <<>> THEN At(market.tokens, 0).tokenId ELSE ""

\* the guard of action_select_market
CanSelect == markets # <<>> /\ 0 <= selected_index /\ selected_index < Len(markets)

\* the selection makes an order-book request
SelectFetches ==
    /\ CanSelect
    /\ ~UpdateMarketDetailRaises(At(markets, selected_index))
    /\ Truthy(FirstTokenId(At(markets, selected_index)))

\* the answers the select handler may get for its order-book request
SelectResponses ==
    IF SelectFetches
    THEN BookResponses(FirstTokenId(At(markets, selected_index)))
    ELSE {Failure("timeout")}

\* action_select_market taking the first market whatever the cursor
SelectMarketFirst(resp) ==
    IF ~CanSelect
    THEN /\ netlog' = <<>>
         /\ UNCHANGED <<selected_market, orderbook, status, running, fetched>>
    ELSE LET market   == At(markets, 0)
             token_id == FirstTokenId(market)
             book     == GetOrderbook(resp)
         IN  /\ selected_market' = Some(market)
             /\ IF UpdateMarketDetailRaises(market)
                THEN /\ running' = FALSE
                     /\ netlog' = <<>>
                     /\ UNCHANGED <<orderbook, status, fetched>>
                ELSE IF Truthy(token_id)
                THEN /\ orderbook' = book
                     /\ fetched' = Some([token_id |-> token_id, book |-> book])
                     /\ netlog' = <<BookRequest(token_id)>>
                     /\ IF UpdateOrderbookDisplayRaises(book)
                        THEN running' = FALSE /\ UNCHANGED status
                        ELSE status' = Status("Loaded order book", 0) /\ UNCHANGED running
                ELSE /\ netlog' = <<>>
                     /\ UNCHANGED <<orderbook, status, running, fetched>>

\* action_select_market with the answer of the order-book service
SelectMarket(resp) ==
    IF ~CanSelect
    THEN /\ netlog' = <<>>
         /\ UNCHANGED <<selected_market, orderbook, status, running, fetched>>
    ELSE LET market   == At(markets, selected_index)
             token_id == FirstTokenId(market)
             book     == GetOrderbook(resp)
         IN  /\ selected_market' = Some(market)
             /\ IF UpdateMarketDetailRaises(market)
                THEN /\ running' = FALSE
                     /\ netlog' = <<>>
                     /\ UNCHANGED <<orderbook, status, fetched>>
                ELSE IF Truthy(token_id)
                THEN /\ orderbook' = book
                     /\ fetched' = Some([token_id |-> token_id, book |-> book])
                     /\ netlog' = <<BookRequest(token_id)>>
                     /\ IF UpdateOrderbookDisplayRaises(book)
                        THEN running' = FALSE /\ UNCHANGED status
                        ELSE status' = Status("Loaded order book", 0) /\ UNCHANGED running
                ELSE /\ netlog' = <<>>
                     /\ UNCHANGED <<orderbook, status, running, fetched>>

\* action_select_market (key enter)
ActionSelectMarket ==
    /\ Serving
    /\ UNCHANGED <<markets, selected_index, mounted, clientVars, call, result>>
    /\ \E resp \in SelectResponses : SelectMarket(resp)

\* action_clear_selection forgetting to reset the order book
ClearedSelectionKeepsBook ==
    [selected_market |-> None, selected_index |-> 0, orderbook |-> orderbook]

\* the state action_clear_selection leaves
ClearedSelection ==
    [selected_market |-> None, selected_index |-> 0, orderbook |-> EmptyBook]

\* action_clear_selection (key escape)
ActionClearSelection ==
    /\ Serving
    /\ selected_market' = ClearedSelection.selected_market
    /\ selected_index' = ClearedSelection.selected_index
    /\ orderbook' = ClearedSelection.orderbook
    /\ netlog' = <<>>
    /\ UNCHANGED <<markets, status, mounted, running, fetched, clientVars, call, result>>

\* action_search (key /)
ActionSearch ==
    /\ Serving
    /\ status' = Status("Search: Type to filter markets...", 0)
    /\ netlog' = <<>>
    /\ UNCHANGED <<markets, selected_index, selected_market, orderbook, mounted, running, fetched>>
    /\ UNCHANGED <<clientVars, call, result>>

\* action_quit (key q): self.app.exit()
ActionQuit ==
    /\ Serving
    /\ running' = FALSE
    /\ netlog' = <<>>
    /\ UNCHANGED <<markets, selected_index, selected_market, orderbook, status, mounted, fetched>>
    /\ UNCHANGED <<clientVars, call, result>>

\* a trade key that sets its notice without looking at the selection
TradeNoticeUnguarded(text) ==
    /\ status' = Status(text, 0)
    /\ netlog' = <<>>
    /\ UNCHANGED <<markets, selected_index, selected_market, orderbook, mounted, running, fetched>>
    /\ UNCHANGED <<clientVars, call, result>>

\* the body the four trade handlers share: a notice if a market is selected
TradeNotice(text) ==
    /\ status' = IF selected_market # None THEN Status(text, 0) ELSE status
    /\ netlog' = <<>>
    /\ UNCHANGED <<markets, selected_index, selected_market, orderbook, mounted, running, fetched>>
    /\ UNCHANGED <<clientVars, call, result>>

\* action_buy_yes (key 1)
ActionBuyYes == Serving /\ TradeNotice("BUY YES")

\* action_buy_no (key 2)
ActionBuyNo == Serving /\ TradeNotice("BUY NO")

\* action_sell_yes (key 3)
ActionSellYes == Serving /\ TradeNotice("SELL YES")

\* action_sell_no (key 4)
ActionSellNo == Serving /\ TradeNotice("SELL NO")

\* the interactive screen: one key binding at a time
Next ==
    \/ OnMount
    \/ ActionRefresh
    \/ ActionCursorDown
    \/ ActionCursorUp
    \/ ActionSelectMarket
    \/ ActionClearSelection
    \/ ActionSearch
    \/ ActionQuit
    \/ ActionBuyYes
    \/ ActionBuyNo
    \/ ActionSellYes
    \/ ActionSellNo

Spec == Init /\ [][Next]_vars

---------------------------------------------------------------------------
(* PolymarketClient called directly (agent mode, scripts): one call at a time *)

\* trade amounts and limit prices (in cents) a caller may pass
Amounts == {-1, 0, 5}
Prices == {0, 50, 100, 150}

\* PolymarketClient.__init__ in any environment; no screen is mounted
ClientInit ==
    /\ api_key \in EnvValues
    /\ api_secret \in EnvValues
    /\ private_key \in EnvValues
    /\ is_authenticated = IsAuthenticated(api_key, api_secret, private_key)
    /\ markets = <<>>
    /\ selected_index = 0
    /\ selected_market = None
    /\ orderbook = EmptyBook
    /\ status = Status("Ready", 0)
    /\ mounted = FALSE
    /\ running = TRUE
    /\ fetched = None
    /\ call = None
    /\ result = None
    /\ netlog = <<>>

\* client.place_order(token_id, side, amount, price)
CallPlaceOrder ==
    \E token_id \in Tokens, side \in Sides, amount \in Amounts, price \in Prices,
       resp \in OrderResponses :
        LET out == PlaceOrder(is_authenticated, token_id, side, amount, price, resp)
        IN  /\ call' = Some([op |-> "place_order", token_id |-> token_id, side |-> side,
                             amount |-> amount, price |-> price, resp |-> resp])
            /\ result' = out.value
            /\ netlog' = out.requests
            /\ UNCHANGED <<clientVars, screenVars>>

\* client.get_price(token_id)
CallGetPrice ==
    \E token_id \in Tokens, primary \in PriceResponses, secondary \in PriceResponses :
        LET out == GetPrice(token_id, primary, secondary)
        IN  /\ call' = Some([op |-> "get_price", token_id |-> token_id,
                             primary |-> primary, secondary |-> secondary])
            /\ result' = out.value
            /\ netlog' = out.requests
            /\ UNCHANGED <<clientVars, screenVars>>

ClientNext ==
    \/ CallPlaceOrder
    \/ CallGetPrice

SpecClient == ClientInit /\ [][ClientNext]_vars

\* the last call made, when it was `op`
LastCallIs(op) == call # None /\ call[1].op = op

---------------------------------------------------------------------------
(* Claims about place_order and get_price, checked under SpecClient *)

\* none of the three credential variables holds a value
NoCredentials == ~Truthy(api_key) /\ ~Truthy(api_secret) /\ ~Truthy(private_key)

\* all three credential variables hold a value
AllCredentials == Truthy(api_key) /\ Truthy(api_secret) /\ Truthy(private_key)

\* C7: place_order called when no credential is present returns the
\* authentication-required error value and issues no request, whatever the
\* token id, side, amount and price.
C7_PlaceOrderNoCredentials ==
    (LastCallIs("place_order") /\ NoCredentials)
        => (result = AuthRequired /\ netlog = <<>>)

C7_Witness ==
    /\ LastCallIs("place_order")
    /\ NoCredentials
    /\ call[1].amount = 5 /\ call[1].price = 50 /\ Delivered(call[1].resp)
    /\ result = AuthRequired

\* C8: place_order issues a request only when the API key, the API secret and
\* the private key are all three present; with any one of them absent it
\* returns the authentication-required error and issues no request.
C8_PlaceOrderNeedsAllThree ==
    LastCallIs("place_order") =>
        /\ (netlog # <<>> => AllCredentials)
        /\ (~AllCredentials => (result = AuthRequired /\ netlog = <<>>))

\* the source answered 200 with a body that decodes
Answered(resp) == Delivered(resp) /\ resp.code = 200 /\ ~JsonRaises(resp)

IsFailure(value) == value.kind \in {"empty", "error"}

\* C10: get_price reports a failure only if both the primary and the midpoint
\* source failed: whenever a failure is returned, the midpoint source was
\* asked too and failed too.
C10_FailureOnlyAfterBoth ==
    (LastCallIs("get_price") /\ IsFailure(result)) =>
        /\ ~Answered(call[1].primary)
        /\ netlog = <<PriceRequest(call[1].token_id), MidpointRequest(call[1].token_id)>>
        /\ ~Answered(call[1].secondary)

---------------------------------------------------------------------------
(* Claims about the navigation state of PolyTUIScreen, checked under Spec *)

\* C1: while the screen serves events, whenever markets is non-empty,
\* 0 <= selected_index < len(markets), after any sequence of refresh, cursor,
\* select and clear events.
C1_IndexInRange ==
    (running /\ markets # <<>>) =>
        (0 <= selected_index /\ selected_index < Len(markets))

\* the navigation state is the one of a screen on which nothing is selected
NothingSelected ==
    selected_market = None /\ selected_index = 0 /\ IsEmptyBook(orderbook)

\* C2: a refresh, taken in any state, replaces markets with the fetched list,
\* resets selected_index to 0, sets selected_market to None and empties the
\* order book.
C2_RefreshResets ==
    [][\A resp \in MarketsResponses :
          (Serving /\ LoadMarkets(resp)) =>
              /\ markets' = GetMarkets(resp).markets
              /\ NothingSelected']_vars

RECURSIVE DownTimes(_, _, _)
\* the index after k cursor-down events on a list of n markets
DownTimes(k, i, n) == IF k = 0 THEN i ELSE DownTimes(k - 1, CursorDownIndex(i, n), n)

RECURSIVE UpTimes(_, _, _)
\* the index after k cursor-up events on a list of n markets
UpTimes(k, i, n) == IF k = 0 THEN i ELSE UpTimes(k - 1, CursorUpIndex(i, n), n)

\* C3: cursor movement is circular: from any reachable state with a non-empty
\* list, len(markets) cursor-down events (or as many cursor-up events) bring
\* selected_index back to where it started, each event moving it to
\* (selected_index +/- 1) mod len(markets); on an empty list a cursor event
\* changes nothing.
C3_CursorCircular ==
    [][/\ markets # <<>> =>
            /\ DownTimes(Len(markets), selected_index, Len(markets)) = selected_index
            /\ UpTimes(Len(markets), selected_index, Len(markets)) = selected_index
       /\ (ActionCursorDown /\ markets # <<>>) =>
            selected_index' = (selected_index + 1) % Len(markets)
       /\ (ActionCursorUp /\ markets # <<>>) =>
            selected_index' = (selected_index - 1) % Len(markets)
       /\ ((ActionCursorDown \/ ActionCursorUp) /\ markets = <<>>) =>
            UNCHANGED <<screenVars>>]_vars

\* C4: clearing the selection, in any state, leaves selected_market = None,
\* selected_index = 0 and an empty order book and does not change markets:
\* after select and clear the navigation state is that of a screen on which
\* nothing was selected.
C4_ClearSelection ==
    [][ActionClearSelection => (NothingSelected' /\ markets' = markets)]_vars

\* a selection loaded an order book and was cleared afterwards
C4_Witness ==
    /\ fetched # None /\ ~IsEmptyBook(fetched[1].book)
    /\ markets # <<>>
    /\ netlog = <<>>
    /\ NothingSelected

\* C5: in every state in which the screen serves events, the stored order
\* book is empty or is the last book fetched for the first token of the
\* currently selected market; it is empty when no market is selected and is
\* never the book of a market selected before.
C5_BookOfSelected ==
    running =>
        \/ IsEmptyBook(orderbook)
        \/ /\ selected_market # None
           /\ Truthy(FirstTokenId(selected_market[1]))
           /\ fetched = Some([token_id |-> FirstTokenId(selected_market[1]),
                              book |-> orderbook])

\* the fetch of a refresh fails: network error, timeout, or a status that is
\* not 2xx
FetchFailed(resp) == ~Delivered(resp) \/ RaisesForStatus(resp)

\* C6: when the fetch of a refresh fails, the markets loaded before stay in
\* the navigation state, cursor and selection keep working on them, and only
\* the status message changes.
C6_FailedRefreshKeepsMarkets ==
    [][\A resp \in MarketsResponses :
          (Serving /\ FetchFailed(resp) /\ LoadMarkets(resp)) =>
              UNCHANGED <<markets, selected_index, selected_market, orderbook>>]_vars

---------------------------------------------------------------------------
(* PolymarketClient: the read operations called directly.  get_markets,    *)
(* get_market and get_orderbook of src/polytui_simple.py are statement for *)
(* statement those of src/polytui.py; its get_price differs.               *)

\* get_market: markets[0] if markets else {}
GetMarket(resp) ==
    IF ~Delivered(resp) \/ RaisesForStatus(resp) \/ JsonRaises(resp)
       \/ NormalizeMarkets(resp.body).raised
    THEN EmptyDict
    ELSE LET found == NormalizeMarkets(resp.body).markets
         IN  IF found # <<>> THEN Body(At(found, 0)) ELSE EmptyDict

MarketRequest(condition_id) == Request("GET", "GAMMA/markets", [conditionId |-> condition_id])

\* get_price of polytui_simple.py: the midpoint endpoint only
SimpleGetPrice(token_id, resp) ==
    IF ~Delivered(resp) THEN Outcome(EmptyDict, <<MidpointRequest(token_id)>>)
    ELSE IF resp.code = 200
    THEN Outcome(IF JsonRaises(resp) THEN EmptyDict ELSE Body(resp.body.value),
                 <<MidpointRequest(token_id)>>)
    ELSE Outcome(StatusCodeError(resp.code), <<MidpointRequest(token_id)>>)

Addresses == {"0xabc"}

PositionsDocs == {[positions |-> <<>>], [positions |-> <<"p1">>]}

PositionsResponses == Responses({Json("object", d) : d \in PositionsDocs} \cup {Undecodable})

PositionsRequest(address) == Request("GET", "DATA/positions", address)

\* get_positions(address)
GetPositions(authenticated, address, resp) ==
    IF ~authenticated THEN Outcome(Body([positions |-> <<>>]), <<>>)
    ELSE IF ~Delivered(resp) \/ RaisesForStatus(resp) \/ JsonRaises(resp)
    THEN Outcome(Body([positions |-> <<>>]), <<PositionsRequest(address)>>)
    ELSE Outcome(Body(resp.body.value), <<PositionsRequest(address)>>)

Limits == {5, 20}

\* the environment of a process that calls the read operations: each
\* credential variable unset or set (an empty value reads as unset, see
\* IsAuthenticated)
ReadsInit ==
    /\ api_key \in {Unset, "secret"}
    /\ api_secret \in {Unset, "secret"}
    /\ private_key \in {Unset, "secret"}
    /\ is_authenticated = IsAuthenticated(api_key, api_secret, private_key)
    /\ markets = <<>>
    /\ selected_index = 0
    /\ selected_market = None
    /\ orderbook = EmptyBook
    /\ status = Status("Ready", 0)
    /\ mounted = FALSE
    /\ running = TRUE
    /\ fetched = None
    /\ call = None
    /\ result = None
    /\ netlog = <<>>

\* client.get_markets(limit=limit)
CallGetMarkets ==
    \E limit \in Limits, resp \in MarketsResponses :
        /\ call' = Some([op |-> "get_markets", limit |-> limit, resp |-> resp])
        /\ result' = GetMarkets(resp)
        /\ netlog' = <<MarketsRequest(limit)>>
        /\ UNCHANGED <<clientVars, screenVars>>

\* client.get_market(condition_id)
CallGetMarket ==
    \E condition_id \in {"c1"}, resp \in MarketsResponses :
        /\ call' = Some([op |-> "get_market", condition_id |-> condition_id, resp |-> resp])
        /\ result' = GetMarket(resp)
        /\ netlog' = <<MarketRequest(condition_id)>>
        /\ UNCHANGED <<clientVars, screenVars>>

\* client.get_orderbook(token_id)
CallGetOrderbook ==
    \E token_id \in Tokens : \E resp \in BookResponses(token_id) :
        /\ call' = Some([op |-> "get_orderbook", token_id |-> token_id, resp |-> resp])
        /\ result' = GetOrderbook(resp)
        /\ netlog' = <<BookRequest(token_id)>>
        /\ UNCHANGED <<clientVars, screenVars>>

\* client.get_price(token_id) of polytui_simple.py
CallSimpleGetPrice ==
    \E token_id \in Tokens, resp \in PriceResponses :
        LET out == SimpleGetPrice(token_id, resp)
        IN  /\ call' = Some([op |-> "simple_get_price", token_id |-> token_id, resp |-> resp])
            /\ result' = out.value
            /\ netlog' = out.requests
            /\ UNCHANGED <<clientVars, screenVars>>

\* client.get_positions(address)
CallGetPositions ==
    \E address \in Addresses, resp \in PositionsResponses :
        LET out == GetPositions(is_authenticated, address, resp)
        IN  /\ call' = Some([op |-> "get_positions", address |-> address, resp |-> resp])
            /\ result' = out.value
            /\ netlog' = out.requests
            /\ UNCHANGED <<clientVars, screenVars>>

ReadsNext ==
    \/ CallGetMarkets
    \/ CallGetMarket
    \/ CallGetOrderbook
    \/ CallSimpleGetPrice
    \/ CallGetPositions

SpecReads == ReadsInit /\ [][ReadsNext]_vars

---------------------------------------------------------------------------
(* Claims about the read operations *)

\* C13: whatever a read request ends in (an answer, an error status, a
\* timeout, a refused connection, an undecodable or a wrongly shaped body),
\* the handler that made the request completes and the screen goes on
\* serving keys: no fault of a read reaches the event loop.
C13_ReadFaultsAbsorbed ==
    [][(Serving /\ netlog' # <<>>) => running']_vars

\* the last get_markets call got a decoded body of the given shapes
MarketsBodyWas(shapes) ==
    /\ LastCallIs("get_markets")
    /\ Delivered(call[1].resp)
    /\ ~RaisesForStatus(call[1].resp)
    /\ call[1].resp.body.shape \in shapes

\* C14: get_markets returns the list L, in its order, both for a body that
\* is the bare list L and for a body that is an object whose markets field
\* is L; a body of neither shape (an object without the field, a value that
\* is neither list nor object) gives the empty list, returned not raised.
C14_MarketsShapes ==
    /\ MarketsBodyWas({"list", "object"}) =>
           result = [markets |-> call[1].resp.body.value, cursor |-> None]
    /\ MarketsBodyWas({"object_other", "scalar"}) =>
           result = [markets |-> <<>>, cursor |-> None]

\* an object body carrying two markets or more was normalised
C14_Witness ==
    /\ MarketsBodyWas({"object"})
    /\ Len(call[1].resp.body.value) >= 2
    /\ result.markets = call[1].resp.body.value

\* C20: get_positions called without credentials returns the
\* authentication-required error value (no empty positions result, no
\* exception) and issues no request.
C20_PositionsNeedCredentials ==
    (LastCallIs("get_positions") /\ NoCredentials)
        => (result.kind = "error" /\ result = AuthRequired /\ netlog = <<>>)

---------------------------------------------------------------------------
(* Agent mode: one process invocation, run_agent_mode(args) of polytui.py  *)
(* and the flag branches of main() of polytui_simple.py.  An optional      *)
(* string argument is Unset when its flag is not given, an optional number *)
(* is None or <<n>>.  What the invocation printed and which client methods *)
(* it called are recorded in result.                                       *)

AgentLimit == 20
SimpleLimit == 10

AgentPrices == Prices \cup {-10}

\* not x of an optional float argument: None and 0.0 are false
Falsy(x) == x = None \/ x[1] = 0

\* side.upper() of the two values argparse admits
Upper(side) == IF side = "buy" THEN "BUY" ELSE "SELL"

\* the trade arguments: --token-id, --side, --amount, --trade-price
TradeFields ==
    [token_id : {Unset, "t1"}, side : {Unset, "buy", "sell"},
     amount : {None} \cup {Some(a) : a \in Amounts},
     trade_price : {None} \cup {Some(q) : q \in AgentPrices}]

ValidTrade == [token_id |-> "t1", side |-> "buy", amount |-> Some(5), trade_price |-> Some(50)]

\* the read flags: --list, --market-id, --orderbook, --price
ReadFlags ==
    [list_markets : BOOLEAN, market_id : {Unset, "c1"}, orderbook : {Unset, "t1"},
     price : {Unset, "t2"}]

NoReadFlags == [list_markets |-> FALSE, market_id |-> Unset, orderbook |-> Unset, price |-> Unset]

AgentArguments(flags, trade, fields) ==
    [list_markets |-> flags.list_markets, limit |-> AgentLimit, market_id |-> flags.market_id,
     orderbook |-> flags.orderbook, price |-> flags.price, trade |-> trade,
     token_id |-> fields.token_id, side |-> fields.side, amount |-> fields.amount,
     trade_price |-> fields.trade_price]

\* the command lines explored: every combination of the read flags with and
\* without --trade, and --trade alone with every combination of its fields
AgentArgs ==
    {AgentArguments(f, t, ValidTrade) : f \in ReadFlags, t \in BOOLEAN} \cup
    {AgentArguments(NoReadFlags, TRUE, x) : x \in TradeFields}

MissingArguments == Error("Missing required arguments: --token-id, --side, --amount, --price")
PriceOutOfRange == Error("Price must be between 0 and 1")

\* the price check with its upper limit left out
TradePriceOnlyNegative(trade_price) == trade_price < 0

\* args.trade_price < 0 or args.trade_price > 1
TradePriceRejected(trade_price) == trade_price < 0 \/ trade_price > 100

\* the branch run_agent_mode takes
AgentBranch(args) ==
    IF args.list_markets THEN "list"
    ELSE IF Truthy(args.market_id) THEN "market"
    ELSE IF Truthy(args.orderbook) THEN "orderbook"
    ELSE IF Truthy(args.price) THEN "price"
    ELSE IF args.trade
    THEN IF ~Truthy(args.token_id) \/ ~Truthy(args.side) \/ Falsy(args.amount)
            \/ Falsy(args.trade_price)
         THEN "missing"
         ELSE IF TradePriceRejected(args.trade_price[1]) THEN "range" ELSE "order"
    ELSE "default"

NoAnswer == Failure("unused")

\* the answers the upstream services may give to the requests of a branch
BranchResponses(branch, args) ==
    CASE branch \in {"list", "default", "market"} -> MarketsResponses
      [] branch = "orderbook" -> BookResponses(args.orderbook)
      [] branch = "price" -> PriceResponses \X PriceResponses
      [] branch = "order" -> OrderResponses
      [] OTHER -> {NoAnswer}

\* what an invocation did
Ran(printed, calls, requests) == [printed |-> printed, calls |-> calls, requests |-> requests]

\* run_agent_mode(args)
RunAgentMode(args, authenticated, resp) ==
    LET branch == AgentBranch(args)
    IN  CASE branch \in {"list", "default"} ->
                Ran(<<GetMarkets(resp)>>, <<"get_markets">>, <<MarketsRequest(args.limit)>>)
          [] branch = "market" ->
                Ran(<<GetMarket(resp)>>, <<"get_market">>, <<MarketRequest(args.market_id)>>)
          [] branch = "orderbook" ->
                Ran(<<GetOrderbook(resp)>>, <<"get_orderbook">>, <<BookRequest(args.orderbook)>>)
          [] branch = "price" ->
                LET out == GetPrice(args.price, resp[1], resp[2])
                IN  Ran(<<out.value>>, <<"get_price">>, out.requests)
          [] branch = "missing" -> Ran(<<MissingArguments>>, <<>>, <<>>)
          [] branch = "range" -> Ran(<<PriceOutOfRange>>, <<>>, <<>>)
          [] branch = "order" ->
                LET out == PlaceOrder(authenticated, args.token_id, Upper(args.side),
                                      args.amount[1], args.trade_price[1], resp)
                IN  Ran(<<out.value>>, <<"place_order">>, out.requests)

\* the flags of polytui_simple.py that make main() answer with a document
SimpleArgs ==
    {[agent |-> a, list_markets |-> f.list_markets, limit |-> SimpleLimit,
      market_id |-> f.market_id, orderbook |-> f.orderbook, price |-> f.price] :
        a \in BOOLEAN, f \in ReadFlags}

\* the branch main() of polytui_simple.py takes
SimpleBranch(args) ==
    IF args.agent \/ args.list_markets THEN "list"
    ELSE IF Truthy(args.market_id) THEN "market"
    ELSE IF Truthy(args.orderbook) THEN "orderbook"
    ELSE IF Truthy(args.price) THEN "price"
    ELSE "interactive"

SimpleBranchResponses(branch, args) ==
    CASE branch \in {"list", "market"} -> MarketsResponses
      [] branch = "orderbook" -> BookResponses(args.orderbook)
      [] branch = "price" -> PriceResponses

\* main() of polytui_simple.py on its non-interactive branches
SimpleMain(args, resp) ==
    LET branch == SimpleBranch(args)
    IN  CASE branch = "list" ->
                Ran(<<GetMarkets(resp)>>, <<"get_markets">>, <<MarketsRequest(args.limit)>>)
          [] branch = "market" ->
                Ran(<<GetMarket(resp)>>, <<"get_market">>, <<MarketRequest(args.market_id)>>)
          [] branch = "orderbook" ->
                Ran(<<GetOrderbook(resp)>>, <<"get_orderbook">>, <<BookRequest(args.orderbook)>>)
          [] branch = "price" ->
                LET out == SimpleGetPrice(args.price, resp)
                IN  Ran(<<out.value>>, <<"get_price">>, out.requests)

\* python polytui.py --agent ...: the process runs once
AgentRun ==
    /\ call = None
    /\ \E args \in AgentArgs : \E resp \in BranchResponses(AgentBranch(args), args) :
        LET out == RunAgentMode(args, is_authenticated, resp)
        IN  /\ call' = Some([op |-> "run_agent_mode", args |-> args, resp |-> resp])
            /\ result' = [printed |-> out.printed, calls |-> out.calls]
            /\ netlog' = out.requests
            /\ UNCHANGED <<clientVars, screenVars>>

\* python polytui_simple.py with a flag that asks for a document
SimpleRun ==
    /\ call = None
    /\ \E args \in SimpleArgs :
        /\ SimpleBranch(args) # "interactive"
        /\ \E resp \in SimpleBranchResponses(SimpleBranch(args), args) :
            LET out == SimpleMain(args, resp)
            IN  /\ call' = Some([op |-> "simple_main", args |-> args, resp |-> resp])
                /\ result' = [printed |-> out.printed, calls |-> out.calls]
                /\ netlog' = out.requests
                /\ UNCHANGED <<clientVars, screenVars>>

AgentNext ==
    \/ AgentRun
    \/ SimpleRun

SpecAgent == ReadsInit /\ [][AgentNext]_vars

---------------------------------------------------------------------------
(* Claims about agent mode, checked under SpecAgent *)

\* the last invocation was run_agent_mode with --trade and no read flag
TradeRequested ==
    /\ LastCallIs("run_agent_mode")
    /\ call[1].args.trade
    /\ ~call[1].args.list_markets
    /\ call[1].args.market_id = Unset
    /\ call[1].args.orderbook = Unset
    /\ call[1].args.price = Unset

\* one of the four trade arguments was not given
FieldMissing(args) ==
    \/ args.token_id = Unset
    \/ args.side = Unset
    \/ args.amount = None
    \/ args.trade_price = None

\* the trade price given lies outside [0, 1]
PriceOutside(args) ==
    args.trade_price # None /\ (args.trade_price[1] < 0 \/ args.trade_price[1] > 100)

C12_OrdersWellFormed ==
    \A i \in DOMAIN netlog :
        netlog[i].method = "POST" =>
            /\ netlog[i].arg.side \in Sides
            /\ netlog[i].arg.amount.str > 0
            /\ netlog[i].arg.price.str >= 0
            /\ netlog[i].arg.price.str <= 100

\* the operation flags given on the command line
FlagsGiven(args) ==
    {f \in {"list", "market", "orderbook", "price", "trade"} :
        \/ f = "list" /\ args.list_markets
        \/ f = "market" /\ args.market_id # Unset
        \/ f = "orderbook" /\ args.orderbook # Unset
        \/ f = "price" /\ args.price # Unset
        \/ f = "trade" /\ "trade" \in DOMAIN args /\ args.trade}

\* C19: an agent-mode invocation calls exactly one client operation and
\* prints exactly one document, and the operation is the one its flag asks
\* for: --market-id get_market, --orderbook get_orderbook, --price
\* get_price, --list or no flag the listing.  Stated for the invocations
\* that ask for no trade.
C19_OneOperationAsRequested ==
    (call # None /\ "trade" \notin FlagsGiven(call[1].args)) =>
        /\ Len(result.calls) = 1
        /\ Len(result.printed) = 1
        /\ FlagsGiven(call[1].args) = {"market"} => result.calls = <<"get_market">>
        /\ FlagsGiven(call[1].args) = {"orderbook"} => result.calls = <<"get_orderbook">>
        /\ FlagsGiven(call[1].args) = {"price"} => result.calls = <<"get_price">>
        /\ FlagsGiven(call[1].args) \subseteq {"list"} => result.calls = <<"get_markets">>

---------------------------------------------------------------------------
(* The projections of a market and of an order book: update_market_list,   *)
(* update_market_detail and update_orderbook_display of polytui.py,        *)
(* print_market, print_market_detail and print_orderbook of                *)
(* polytui_simple.py.  A JSON value carries what the conversions applied   *)
(* to it depend on: its type, whether float() accepts it and the number it *)
(* gives (in hundredths; a probability in hundredths is its percentage),   *)
(* what json.loads gives for a string, and the elements of a list or the   *)
(* characters of a string.                                                 *)

JV(type, numeric, h, json, items) ==
    [type |-> type, numeric |-> numeric, h |-> h, json |-> json, items |-> items]

\* the key is not in the dict
Absent == JV("absent", FALSE, 0, None, <<>>)

\* JSON null, Python None
Null == JV("null", FALSE, 0, None, <<>>)

\* a JSON number
Number(h) == JV("number", TRUE, h, None, <<>>)

\* a JSON object with one key, {"a": 1}
Object == JV("object", FALSE, 0, None, <<>>)

\* a JSON list
List(items) == JV("list", FALSE, 0, None, items)

\* a character that is no digit
Letter == JV("string", FALSE, 0, None, <<>>)

\* the character of a digit d: float gives d
Digit(d) == JV("string", TRUE, 100 * d, Some(Number(100 * d)), <<>>)

\* the string "abc": no number, no JSON text
Word == JV("string", FALSE, 0, None, <<Letter, Letter, Letter>>)

\* the string of a decimal literal, "0.7" or "1000": float gives its number,
\* and so does json.loads
NumStr(h, chars) == JV("string", TRUE, h, Some(Number(h)), chars)

\* the JSON text of a value that is no number
Text(value) == JV("string", FALSE, 0, Some(value), <<>>)

\* float(v): a number or the string of a number, ValueError or TypeError otherwise
Float(v) == [raised |-> ~v.numeric, h |-> IF v.numeric THEN v.h ELSE 0]

\* f"{v:,.2f}": the format code f is defined for numbers only
FormatNumber(v) == [raised |-> v.type # "number", h |-> IF v.type = "number" THEN v.h ELSE 0]

\* json.loads(v): TypeError for a value that is no string, JSONDecodeError for
\* a string that is no JSON text
JsonLoads(v) ==
    IF v.type = "string" /\ v.json # None
    THEN [raised |-> FALSE, value |-> v.json[1]]
    ELSE [raised |-> TRUE, value |-> Null]

\* len(v)
LenOf(v) ==
    CASE v.type \in {"list", "string"} -> [raised |-> FALSE, n |-> Len(v.items)]
      [] v.type = "object" -> [raised |-> FALSE, n |-> 1]
      [] OTHER -> [raised |-> TRUE, n |-> 0]

\* v[i]: an element of a list, a character of a string, KeyError on the object
Index(v, i) ==
    IF v.type \in {"list", "string"} /\ i < Len(v.items)
    THEN [raised |-> FALSE, value |-> At(v.items, i)]
    ELSE [raised |-> TRUE, value |-> Null]

\* market.get(field, default)
Get(market, field, default) ==
    IF market[field].type = "absent" THEN default ELSE market[field]

\* '["0.5", "0.5"]', the default of outcomePrices
DefaultPricesText == Text(List(<<NumStr(50, <<>>), NumStr(50, <<>>)>>))

\* float(outcome_prices[i]) * 100 if len(outcome_prices) > i else 50
OutcomePrice(outcome_prices, i) ==
    LET n == LenOf(outcome_prices)
    IN  IF n.raised THEN [raised |-> TRUE, h |-> 0]
        ELSE IF n.n > i
        THEN IF Index(outcome_prices, i).raised THEN [raised |-> TRUE, h |-> 0]
             ELSE Float(Index(outcome_prices, i).value)
        ELSE [raised |-> FALSE, h |-> 50]

\* what a view shows of a market: the numbers it uses, or the field at which
\* it raised; liquidity and no are None in a view that does not show them
Shown(volume, liquidity, yes, no) ==
    [raised |-> FALSE, at |-> "", volume |-> volume, liquidity |-> liquidity,
     yes |-> yes, no |-> no]

Raised(field) ==
    [raised |-> TRUE, at |-> field, volume |-> 0, liquidity |-> None, yes |-> 0, no |-> None]

\* one row of update_market_list
UpdateMarketListRow(market) ==
    LET volume   == Float(Get(market, "volume", Number(0)))
        yes_prob == Float(Get(market, "yesPrice", Number(50)))
    IN  IF volume.raised THEN Raised("volume")
        ELSE IF yes_prob.raised THEN Raised("yesPrice")
        ELSE Shown(volume.h, None, yes_prob.h, None)

\* update_market_detail of the selected market
UpdateMarketDetail(market) ==
    LET volume    == FormatNumber(Get(market, "volume", Number(0)))
        liquidity == FormatNumber(Get(market, "liquidity", Number(0)))
        yes_price == Float(Get(market, "yesPrice", Number(0)))
    IN  IF volume.raised THEN Raised("volume")
        ELSE IF liquidity.raised THEN Raised("liquidity")
        ELSE IF yes_price.raised THEN Raised("yesPrice")
        ELSE Shown(volume.h, Some(liquidity.h), yes_price.h, Some(100 - yes_price.h))

\* print_market of polytui_simple.py
PrintMarket(market) ==
    LET volume    == Float(Get(market, "volume", Number(0)))
        liquidity == Float(Get(market, "liquidity", Number(0)))
        decoded   == JsonLoads(Get(market, "outcomePrices", DefaultPricesText))
        yes       == IF decoded.raised THEN [raised |-> TRUE, h |-> 0]
                     ELSE OutcomePrice(decoded.value, 0)
    IN  IF volume.raised THEN Raised("volume")
        ELSE IF liquidity.raised THEN Raised("liquidity")
        ELSE Shown(volume.h, Some(liquidity.h), IF yes.raised THEN 50 ELSE yes.h, None)

\* print_market_detail of polytui_simple.py
PrintMarketDetail(market) ==
    LET volume    == Float(Get(market, "volume", Number(0)))
        liquidity == Float(Get(market, "liquidity", Number(0)))
        decoded   == JsonLoads(Get(market, "outcomePrices", DefaultPricesText))
        yes       == IF decoded.raised THEN [raised |-> TRUE, h |-> 0]
                     ELSE OutcomePrice(decoded.value, 0)
        no        == IF decoded.raised THEN [raised |-> TRUE, h |-> 0]
                     ELSE OutcomePrice(decoded.value, 1)
    IN  IF volume.raised THEN Raised("volume")
        ELSE IF liquidity.raised THEN Raised("liquidity")
        ELSE IF yes.raised \/ no.raised THEN Shown(volume.h, Some(liquidity.h), 50, Some(50))
        ELSE Shown(volume.h, Some(liquidity.h), yes.h, Some(no.h))

\* the strings "0.7", "0.3" and "1000"
S07 == NumStr(70, <<Digit(0), Letter, Digit(7)>>)
S03 == NumStr(30, <<Digit(0), Letter, Digit(3)>>)
S1000 == NumStr(100000, <<Digit(1), Digit(0), Digit(0), Digit(0)>>)

\* the price lists a market may carry
PriceLists ==
    {<<>>, <<S07>>, <<S07, S03>>, <<Number(70), Number(30)>>, <<S07, Word>>, <<Word, S03>>}

\* the values of outcomePrices: absent, null, a native list, the JSON text of
\* a list, a string that is no JSON text, the JSON text of a value that is no list
OutcomePricesValues ==
    {Absent, Null, Word, S07, Text(Object), Text(Null), Text(Word), Text(S07)}
    \cup {List(l) : l \in PriceLists} \cup {Text(List(l)) : l \in PriceLists}

VolumeValues == {Absent, Null, Number(100000), S1000, Word}

LiquidityValues == {Absent, Number(50000), Word}

YesPriceValues == {Absent, Number(70), S07}

ViewMarkets ==
    [volume : VolumeValues, liquidity : LiquidityValues, yesPrice : YesPriceValues,
     outcomePrices : OutcomePricesValues]

MaxLevels == 2
BookWindow == 10
SimpleBookWindow == 5

\* the levels a side of a book may hold: well formed at the prices of P (in
\* hundredths), without a price, with a price that is no number, without a size
LevelKinds(P) ==
    {Level(Number(q), Number(1000)) : q \in P} \cup {Level(Number(q), Absent) : q \in P}
    \cup {Level(Absent, Number(1000)), Level(Word, Number(1000))}

RECURSIVE LevelLists(_, _)
\* the lists of at most n levels of K, in any order
LevelLists(K, n) ==
    IF n = 0 THEN {<<>>}
    ELSE LET shorter == LevelLists(K, n - 1)
         IN  shorter \cup {Append(l, k) : l \in {x \in shorter : Len(x) = n - 1}, k \in K}

ViewBooks ==
    {[bids |-> b, asks |-> a] : b \in LevelLists(LevelKinds({40, 60}), MaxLevels),
                                a \in LevelLists(LevelKinds({65, 70}), MaxLevels)}

\* float(level.get('price', 0))
LevelPrice(level) == Float(Get(level, "price", Number(0)))

\* float(level.get('size', 0))
LevelSize(level) == Float(Get(level, "size", Number(0)))

\* the lines printed for a list of levels
LevelRows(levels) ==
    [raised |-> \E i \in DOMAIN levels : LevelSize(levels[i]).raised \/ LevelPrice(levels[i]).raised,
     rows   |-> [i \in DOMAIN levels |->
                    [price |-> LevelPrice(levels[i]).h, size |-> LevelSize(levels[i]).h]]]

\* update_orderbook_display and print_orderbook: the levels listed and the
\* spread line, or the exception of a float() that fails
ProjectOrderbook(book, window) ==
    LET asks     == LevelRows(SubSeq(book.asks, 1, Min(window, Len(book.asks))))
        bids     == LevelRows(SubSeq(book.bids, 1, Min(window, Len(book.bids))))
        two      == book.bids # <<>> /\ book.asks # <<>>
        best_bid == LevelPrice(At(book.bids, 0))
        best_ask == LevelPrice(At(book.asks, 0))
    IN  IF asks.raised \/ (two /\ (best_bid.raised \/ best_ask.raised)) \/ bids.raised
        THEN [raised |-> TRUE, asks |-> <<>>, bids |-> <<>>, spread |-> None]
        ELSE [raised |-> FALSE, asks |-> asks.rows, bids |-> bids.rows,
              spread |-> IF two THEN Some(best_ask.h - best_bid.h) ELSE None]

\* a view was applied to an input
Project(op, input, output) ==
    /\ call' = Some([op |-> op, input |-> input])
    /\ result' = output
    /\ netlog' = <<>>
    /\ UNCHANGED <<clientVars, screenVars>>

\* each view is applied once, to one input
ViewUpdateMarketList ==
    /\ call = None
    /\ \E m \in ViewMarkets : Project("update_market_list", m, UpdateMarketListRow(m))

ViewUpdateMarketDetail ==
    /\ call = None
    /\ \E m \in ViewMarkets : Project("update_market_detail", m, UpdateMarketDetail(m))

ViewPrintMarket ==
    /\ call = None
    /\ \E m \in ViewMarkets : Project("print_market", m, PrintMarket(m))

ViewPrintMarketDetail ==
    /\ call = None
    /\ \E m \in ViewMarkets : Project("print_market_detail", m, PrintMarketDetail(m))

ViewUpdateOrderbookDisplay ==
    /\ call = None
    /\ \E b \in ViewBooks : Project("update_orderbook_display", b, ProjectOrderbook(b, BookWindow))

ViewPrintOrderbook ==
    /\ call = None
    /\ \E b \in ViewBooks : Project("print_orderbook", b, ProjectOrderbook(b, SimpleBookWindow))

ViewsNext ==
    \/ ViewUpdateMarketList
    \/ ViewUpdateMarketDetail
    \/ ViewPrintMarket
    \/ ViewPrintMarketDetail
    \/ ViewUpdateOrderbookDisplay
    \/ ViewPrintOrderbook

SpecViews == Init /\ [][ViewsNext]_vars

---------------------------------------------------------------------------
(* Claims about the projections, checked under SpecViews *)

\* the last view applied was one of `ops`
Viewed(ops) == call # None /\ call[1].op \in ops

MarketViews == {"update_market_list", "update_market_detail", "print_market", "print_market_detail"}

\* the list an outcomePrices encoding denotes, native or as JSON text
DenotedList(enc) ==
    IF enc.type = "list" THEN Some(enc)
    ELSE IF enc.type = "string" /\ enc.json # None /\ enc.json[1].type = "list" THEN enc.json
    ELSE None

\* a list of two prices or more, each a number or the string of a number
IsPriceList(v) == Len(v.items) >= 2 /\ \A i \in DOMAIN v.items : v.items[i].numeric

\* a well-formed outcomePrices encoding
WellFormed(enc) == DenotedList(enc) # None /\ IsPriceList(DenotedList(enc)[1])

\* a malformed one: text that does not decode, text of a value that is no
\* list, a list with an element that is no number, a list of fewer than two
Malformed(enc) == enc.type \in {"string", "list"} /\ ~WellFormed(enc)

\* C15: print_market and print_market_detail show the fallback 0.5 for
\* both outcomes, and raise nothing, for every malformed outcomePrices
\* encoding; for a well-formed encoding, JSON text or native array, they
\* show the prices of the encoding.
C15_OutcomePrices ==
    (Viewed({"print_market", "print_market_detail"}) /\ ~result.raised) =>
        /\ Malformed(call[1].input.outcomePrices) =>
               /\ result.yes = 50
               /\ result.no # None => result.no = Some(50)
        /\ WellFormed(call[1].input.outcomePrices) =>
               /\ result.yes = DenotedList(call[1].input.outcomePrices)[1].items[1].h
               /\ result.no # None =>
                      result.no = Some(DenotedList(call[1].input.outcomePrices)[1].items[2].h)

\* the number a field holds for a view: that of a number or of the string of
\* a number, 0 for an absent or a non-numeric value
Numeric(v) == IF v.numeric THEN v.h ELSE 0

\* C16: no list or detail view raises on the volume or the liquidity of a
\* market; each shows 0 for a value that is absent or not numeric and the
\* parsed number for a numeric string.
C16_VolumeLiquidity ==
    Viewed(MarketViews) =>
        /\ result.at \notin {"volume", "liquidity"}
        /\ ~result.raised =>
               /\ result.volume = Numeric(call[1].input.volume)
               /\ result.liquidity # None =>
                      result.liquidity = Some(Numeric(call[1].input.liquidity))

\* {"question": ..., "volume": "1000", "outcomePrices": "[\"0.7\", \"0.3\"]"}
ExampleMarket ==
    [volume |-> S1000, liquidity |-> Absent, yesPrice |-> Absent,
     outcomePrices |-> Text(List(<<S07, S03>>))]

\* C17: every view of the market with volume "1000" and outcomePrices
\* "[\"0.7\", \"0.3\"]" uses the volume 1000 and the prices 0.7 and 0.3.
C17_SameNumbersInEveryView ==
    (Viewed(MarketViews) /\ call[1].input = ExampleMarket) =>
        /\ ~result.raised
        /\ result.volume = 100000
        /\ result.yes = 70
        /\ result.no # None => result.no = Some(30)

\* a level with a numeric price and a numeric size
WellFormedLevel(level) == level.price.numeric /\ level.size.numeric

\* every level of the book is well formed
WellFormedBook(book) ==
    /\ \A i \in DOMAIN book.bids : WellFormedLevel(book.bids[i])
    /\ \A i \in DOMAIN book.asks : WellFormedLevel(book.asks[i])

RECURSIVE LowestPrice(_)
\* the lowest price of a non-empty list of well-formed levels
LowestPrice(levels) ==
    IF Len(levels) = 1 THEN levels[1].price.h
    ELSE Min(levels[1].price.h, LowestPrice(Tail(levels)))

RECURSIVE HighestPrice(_)
\* the highest price of a non-empty list of well-formed levels
HighestPrice(levels) ==
    IF Len(levels) = 1 THEN levels[1].price.h
    ELSE IF levels[1].price.h > HighestPrice(Tail(levels)) THEN levels[1].price.h
    ELSE HighestPrice(Tail(levels))

BookViews == {"update_orderbook_display", "print_orderbook"}

\* C18: the order-book views show a spread exactly when the book has bids
\* and asks, and the spread is the lowest ask price minus the highest bid
\* price of the book.  Stated for the books whose levels are all well formed.
C18_Spread ==
    (Viewed(BookViews) /\ WellFormedBook(call[1].input)) =>
        /\ ~result.raised
        /\ result.spread # None <=> (call[1].input.bids # <<>> /\ call[1].input.asks # <<>>)
        /\ result.spread # None =>
               result.spread[1] = LowestPrice(call[1].input.asks) - HighestPrice(call[1].input.bids)

\* the lines of the well-formed levels of a list, the others left out
KeptRows(levels) ==
    LET kept == SelectSeq(levels, WellFormedLevel)
    IN  [i \in DOMAIN kept |-> [price |-> kept[i].price.h, size |-> kept[i].size.h]]

\* C23: the order-book views leave out a level whose price or size is
\* missing or no number instead of putting a default in its place: the
\* levels listed are the well-formed ones, and a spread shown is the
\* difference of the prices of a well-formed ask and a well-formed bid.
C23_MalformedLevelsDropped ==
    Viewed(BookViews) =>
        /\ ~result.raised
        /\ result.asks = KeptRows(call[1].input.asks)
        /\ result.bids = KeptRows(call[1].input.bids)
        /\ result.spread # None =>
               \E a \in Range(KeptRows(call[1].input.asks)), b \in Range(KeptRows(call[1].input.bids)) :
                   result.spread[1] = a.price - b.price

\* a trade key: one of the four trade handlers
TradeAction == ActionBuyYes \/ ActionBuyNo \/ ActionSellYes \/ ActionSellNo

\* C21: action_select_market on an empty markets list changes neither
\* selected_market nor selected_index nor the order book and issues no
\* request; on a non-empty list with the index in range selected_market
\* becomes markets[selected_index].
C21_SelectMarket ==
    [][ActionSelectMarket =>
          /\ markets = <<>> =>
                 (UNCHANGED <<selected_market, selected_index, orderbook>> /\ netlog' = <<>>)
          /\ CanSelect => selected_market' = Some(At(markets, selected_index))]_vars

\* a market below the first row is the selected one
C21_Witness ==
    /\ running
    /\ selected_index >= 1
    /\ selected_index < Len(markets)
    /\ selected_market = Some(At(markets, selected_index))

\* C22: a trade key changes neither markets nor selected_index nor
\* selected_market nor the order book, calls no client method and issues
\* no request; with nothing selected it changes nothing, with a market
\* selected it changes the status line only.
C22_TradeKeysOnlyNotify ==
    [][TradeAction =>
          /\ UNCHANGED <<markets, selected_index, selected_market, orderbook, fetched>>
          /\ UNCHANGED <<clientVars, mounted, running, call, result>>
          /\ netlog' = <<>>
          /\ selected_market = None => UNCHANGED status]_vars

\* a trade notice is on the status line of a screen with a selection
C22_Witness ==
    /\ running
    /\ selected_market # None
    /\ status.text \in {"BUY YES", "BUY NO", "SELL YES", "SELL NO"}

---------------------------------------------------------------------------
(* run_interactive of polytui_simple.py: the loop that lists the markets,  *)
(* shows the detail of the selected one and reads one command per turn.    *)
(* markets and selected_index are its locals of these names; mounted says  *)
(* that the loop has been entered, running that it has not been left.  Of  *)
(* a market the loop reads the number of its keys and its clobTokenIds.    *)
(* call holds the command read in the last turn.                           *)

MaxLoaded == 17
InteractiveLimit == 30
ListRows == 15
PageSize == 15

\* the number of keys a market object may have
KeyCounts == {3, 40}

\* clobTokenIds: absent, the JSON text of a list of token ids, a string that
\* is no JSON text, a native list
TokenEncodings ==
    {[enc |-> "absent", ids |-> <<>>], [enc |-> "text", ids |-> <<>>],
     [enc |-> "text", ids |-> <<"t1", "t2">>], [enc |-> "undecodable", ids |-> <<>>],
     [enc |-> "native", ids |-> <<"t1">>]}

\* json.loads(markets[i].get("clobTokenIds", "[]"))
DecodeTokenIds(encoding) ==
    CASE encoding.enc = "absent" -> [raised |-> FALSE, ids |-> <<>>]
      [] encoding.enc = "text" -> [raised |-> FALSE, ids |-> encoding.ids]
      [] OTHER -> [raised |-> TRUE, ids |-> <<>>]

SimpleMarket(id, keys, encoding) == [id |-> id, keys |-> keys, clobTokenIds |-> encoding]

\* the lists the markets service may answer with: up to MaxLoaded markets
SimpleLists ==
    {[i \in 1..n |-> SimpleMarket(i, k, e)] : n \in 0..MaxLoaded, k \in KeyCounts,
                                                e \in TokenEncodings}

SimpleListings == Responses({Json("list", l) : l \in SimpleLists})

\* 'n' without the limit at the end of the list
NextIndexUnclamped(index, length) == index + PageSize

\* min(selected_index + 15, len(markets) - 1)
NextIndex(index, length) == Min(index + PageSize, length - 1)

\* max(selected_index - 15, 0)
PreviousIndex(index) == IF index - PageSize > 0 THEN index - PageSize ELSE 0

\* the rows listed: markets[:15]
ListedRows == Min(ListRows, Len(markets))

\* the local `market` when a command is read: markets[selected_index] if the
\* index is in range, else what the listing loop left in it
LoopMarket ==
    IF 0 <= selected_index /\ selected_index < Len(markets)
    THEN At(markets, selected_index)
    ELSE At(markets, ListedRows - 1)

\* the test of the 'o' branch: 0 <= selected_index < len(market)
OrderbookHonoured == 0 <= selected_index /\ selected_index < LoopMarket.keys

NoTokenMessage == "No token IDs available for this market"

\* print_orderbook raises: orderbook.get of a value that is no dict
PrintOrderbookRaises(book) == "not_object" \in DOMAIN book

Looping == mounted /\ running

\* a turn that prints nothing of its own and issues no request
Quiet == netlog' = <<>> /\ result' = None

\* run_interactive up to the loop: the markets are fetched once
SimpleStart ==
    /\ ~mounted /\ running
    /\ \E resp \in SimpleListings :
        /\ markets' = GetMarkets(resp).markets
        /\ IF GetMarkets(resp).markets = <<>>
           THEN running' = FALSE /\ UNCHANGED mounted
           ELSE mounted' = TRUE /\ UNCHANGED running
    /\ selected_index' = 0
    /\ netlog' = <<MarketsRequest(InteractiveLimit)>>
    /\ result' = None
    /\ UNCHANGED <<selected_market, orderbook, status, fetched, clientVars, call>>

\* command n
InputNext ==
    /\ Looping
    /\ selected_index' = NextIndex(selected_index, Len(markets))
    /\ Quiet
    /\ UNCHANGED <<markets, selected_market, orderbook, status, mounted, running, fetched>>
    /\ call' = Some([op |-> "n"])
    /\ UNCHANGED clientVars

\* command p
InputPrevious ==
    /\ Looping
    /\ selected_index' = PreviousIndex(selected_index)
    /\ Quiet
    /\ UNCHANGED <<markets, selected_market, orderbook, status, mounted, running, fetched>>
    /\ call' = Some([op |-> "p"])
    /\ UNCHANGED clientVars

\* the order-book request command o makes, if it makes one
OrderbookFetch ==
    /\ OrderbookHonoured
    /\ selected_index < Len(markets)
    /\ ~DecodeTokenIds(At(markets, selected_index).clobTokenIds).raised
    /\ DecodeTokenIds(At(markets, selected_index).clobTokenIds).ids # <<>>

\* command o with the answer of the order-book service
ShowOrderbook(resp) ==
    IF ~OrderbookHonoured THEN Quiet /\ UNCHANGED running
    ELSE IF ~(selected_index < Len(markets))
    THEN running' = FALSE /\ Quiet
    ELSE LET decoded == DecodeTokenIds(At(markets, selected_index).clobTokenIds)
         IN  /\ UNCHANGED running
             /\ IF decoded.raised THEN netlog' = <<>> /\ result' = Some(NoTokenMessage)
                ELSE IF decoded.ids = <<>> THEN Quiet
                ELSE /\ netlog' = <<BookRequest(At(decoded.ids, 0))>>
                     /\ result' = IF PrintOrderbookRaises(GetOrderbook(resp))
                                   THEN Some(NoTokenMessage)
                                   ELSE Some("ORDER BOOK")

\* command o
InputOrderbook ==
    /\ Looping
    /\ \E resp \in IF OrderbookFetch
                    THEN BookResponses(At(DecodeTokenIds(At(markets, selected_index).clobTokenIds).ids, 0))
                    ELSE {NoAnswer} : ShowOrderbook(resp)
    /\ UNCHANGED <<markets, selected_index, selected_market, orderbook, status, mounted, fetched>>
    /\ call' = Some([op |-> "o"])
    /\ UNCHANGED clientVars

\* a command of digits: the number of a market
InputNumber ==
    /\ Looping
    /\ \E number \in 0..(MaxLoaded + 1) :
        selected_index' = IF 0 <= number - 1 /\ number - 1 < Len(markets)
                          THEN number - 1 ELSE selected_index
    /\ Quiet
    /\ UNCHANGED <<markets, selected_market, orderbook, status, mounted, running, fetched>>
    /\ call' = Some([op |-> "digits"])
    /\ UNCHANGED clientVars

\* any other command: the empty line, a word
InputOther ==
    /\ Looping
    /\ Quiet
    /\ UNCHANGED <<markets, selected_index, selected_market, orderbook, status, mounted, running, fetched>>
    /\ call' = Some([op |-> "other"])
    /\ UNCHANGED clientVars

\* command q, or the end of the input
InputQuit ==
    /\ Looping
    /\ running' = FALSE
    /\ Quiet
    /\ UNCHANGED <<markets, selected_index, selected_market, orderbook, status, mounted, fetched>>
    /\ call' = Some([op |-> "q"])
    /\ UNCHANGED clientVars

SimpleNext ==
    \/ SimpleStart
    \/ InputNext
    \/ InputPrevious
    \/ InputOrderbook
    \/ InputNumber
    \/ InputOther
    \/ InputQuit

SpecSimple == Init /\ [][SimpleNext]_vars

---------------------------------------------------------------------------
(* Claims about run_interactive, checked under SpecSimple *)

\* C24: while the loop of run_interactive runs, markets is not empty and
\* 0 <= selected_index < len(markets), whatever commands were read; no
\* turn of the loop changes the list.
C24_LoopIndexInRange ==
    /\ [](Looping => (markets # <<>> /\ 0 <= selected_index /\ selected_index < Len(markets)))
    /\ [][Looping => markets' = markets]_vars

\* command n stopped at the last market of a list shorter than a page
C24_Witness ==
    /\ Looping
    /\ call = Some([op |-> "n"])
    /\ Len(markets) > 1
    /\ Len(markets) <= PageSize
    /\ selected_index = Len(markets) - 1

\* C25: while the loop runs, the selected market is one of the rows listed:
\* selected_index lies inside markets[:15], so one row carries the marker
\* and the detail shown is that of a listed row.
C25_SelectedRowListed ==
    Looping => (0 <= selected_index /\ selected_index < ListedRows)

\* the selected market has clobTokenIds that decode to at least one token id
HasTokenIds(market) ==
    ~DecodeTokenIds(market.clobTokenIds).raised /\ DecodeTokenIds(market.clobTokenIds).ids # <<>>

\* C26: command o on an in-range selected_index whose market has a
\* decodable token id requests the order book of the first token id of
\* that market, however many keys the market object has.
C26_OrderbookOfSelected ==
    (/\ Looping
     /\ call = Some([op |-> "o"])
     /\ selected_index < Len(markets)
     /\ HasTokenIds(At(markets, selected_index)))
        => netlog = <<BookRequest(At(DecodeTokenIds(At(markets, selected_index).clobTokenIds).ids, 0))>>

---------------------------------------------------------------------------
(* Further claims about agent mode (SpecAgent) and the two clients (SpecReads) *)

\* the trade price given lies within [0, 1], the limits included
PriceWithin(args) ==
    args.trade_price # None /\ args.trade_price[1] >= 0 /\ args.trade_price[1] <= 100

\* the amount, if given, is above 0
AmountPositiveIfGiven(args) == args.amount = None \/ args.amount[1] > 0

\* C27: a trade invocation that gives token id, side, amount and a price
\* within [0, 1], the price 0 included, gets to place_order; the error
\* about missing arguments is printed only when an argument was not given.
\* Stated for the invocations whose amount, if given, is above 0.
C27_SuppliedTradeReachesOrder ==
    (TradeRequested /\ AmountPositiveIfGiven(call[1].args)) =>
        /\ (~FieldMissing(call[1].args) /\ PriceWithin(call[1].args)) =>
               result.calls = <<"place_order">>
        /\ (result.calls = <<>> /\ result.printed = <<MissingArguments>>) =>
               FieldMissing(call[1].args)

\* C28: get_price of polytui_simple.py and get_price of polytui.py, given
\* the same token id and the same answers of the endpoints, issue the same
\* requests in the same order and return the same value.  (get_markets,
\* get_market and get_orderbook are one text in both files and one
\* definition here.)
C28_ClientsEquivalent ==
    LastCallIs("simple_get_price") =>
        \A primary \in PriceResponses :
            /\ GetPrice(call[1].token_id, primary, call[1].resp).requests = netlog
            /\ GetPrice(call[1].token_id, primary, call[1].resp).value.kind = result.kind
            /\ GetPrice(call[1].token_id, primary, call[1].resp).value = result

====
